---------------------------- MODULE Spec2Model ----------------------------
(***************************************************************************)
(* Model of the lubbock-gallery front end.                                 *)
(*                                                                         *)
(*   src/src/components/canvas/Gallery.tsx : Gallery, Scene, Cards, Card,  *)
(*                                           ActiveCard                    *)
(*   src/unnamed/part_000                  : RootLayout, Page              *)
(*                                                                         *)
(* JavaScript numbers are modelled as exact rationals extended with NaN    *)
(* and the two infinities (IEEE-754 special values; rounding is not        *)
(* modelled).  Angles are kept in turns, i.e. as multiples of 2*pi: the    *)
(* factor Math.PI * 2 is a positive finite constant, so it changes neither *)
(* the sign, the order, nor the NaN / infinity outcome of any expression.  *)
(* Array indices are 0-based as in the source; sequences are 1-based, so   *)
(* photos[i] of the source is photos[i + 1] here.                          *)
(***************************************************************************)
EXTENDS Integers, Sequences, FiniteSets, TLC

VARIABLES
  photoSets,     \* Scene's photoSets prop: a sequence of photo sequences
  scene,         \* what the last call of Scene produced (or that it threw)
  hoveredPhoto,  \* Scene: useState<Photo | null>(null)
  hovered,       \* Cards: useState(null), one per photo set
  pointerOver,   \* cards that got a pointer-over and no pointer-out yet
  inOrder,       \* history: no pointer-over was delivered over a pending one
  gfx,           \* the transforms the per-frame callbacks write
  frame,         \* the render loop: frames begun, inputs, callbacks left to run
  page,          \* the invocation of Page: where it is, what it returned
  fetch          \* the getAllPhotos call: the photo list and how far it got

sceneVars == <<photoSets, scene, hoveredPhoto, hovered, pointerOver, inOrder>>

frameVars == <<gfx, frame>>

pageVars == <<page, fetch>>

vars == <<sceneVars, frameVars, pageVars>>

---------------------------------------------------------------------------
(* Bounds of the model.                                                    *)

MaxSets == 3

MaxPhotos == 4

HoverSets == 2

HoverPhotos == 2

MaxPointers == 2

FramePhotos == 2

MaxFrames == 2

MaxRenders == 2

---------------------------------------------------------------------------
(* JavaScript values.                                                      *)

\* A Photo of set s (1-based position of the set) at index i (0-based).
Photo(s, i) == [k |-> "photo", set |-> s, idx |-> i]

Null == [k |-> "null", set |-> 0, idx |-> 0]

Undefined == [k |-> "undefined", set |-> 0, idx |-> 0]

\* photo.title
Title(p) == <<"title", p.set, p.idx>>

\* JavaScript truthiness of a Photo | null | undefined.
Truthy(v) == v.k = "photo"

\* The value null of the hovered index (number | null) of Cards.
NullIdx == -1

\* photos[index] of the source: undefined when index is null or out of range.
PhotoAt(photos, index) ==
  IF index >= 0 /\ index < Len(photos) THEN photos[index + 1] ELSE Undefined

---------------------------------------------------------------------------
(* JavaScript numbers: a rational n / d with d > 0, NaN, or an infinity of *)
(* sign n.                                                                 *)

Fin(n, d) == [k |-> "fin", n |-> n, d |-> d]

NaN == [k |-> "nan", n |-> 0, d |-> 1]

Inf(s) == [k |-> "inf", n |-> s, d |-> 1]

Abs(x) == IF x < 0 THEN -x ELSE x

Sgn(x) == IF x < 0 THEN -1 ELSE IF x > 0 THEN 1 ELSE 0

\* The sign used for a zero divisor or factor: the zeros met here are sums
\* and products of integers, which are +0.
SgnZ(x) == IF x < 0 THEN -1 ELSE 1

IsFinite(a) == a.k = "fin"

\* a / b
JsDiv(a, b) ==
  IF a.k = "nan" \/ b.k = "nan" THEN NaN
  ELSE IF a.k = "inf"
    THEN IF b.k = "inf" THEN NaN ELSE Inf(a.n * SgnZ(b.n))
  ELSE IF b.k = "inf" THEN Fin(0, 1)
  ELSE IF b.n = 0
    THEN IF a.n = 0 THEN NaN ELSE Inf(Sgn(a.n))
  ELSE Fin(a.n * b.d * Sgn(b.n), a.d * Abs(b.n))

\* a * b
JsMul(a, b) ==
  IF a.k = "nan" \/ b.k = "nan" THEN NaN
  ELSE IF a.k = "inf" /\ b.k = "inf" THEN Inf(a.n * b.n)
  ELSE IF a.k = "inf" THEN IF b.n = 0 THEN NaN ELSE Inf(a.n * Sgn(b.n))
  ELSE IF b.k = "inf" THEN IF a.n = 0 THEN NaN ELSE Inf(b.n * Sgn(a.n))
  ELSE Fin(a.n * b.n, a.d * b.d)

\* a + b
JsAdd(a, b) ==
  IF a.k = "nan" \/ b.k = "nan" THEN NaN
  ELSE IF a.k = "inf" /\ b.k = "inf" THEN IF a.n = b.n THEN a ELSE NaN
  ELSE IF a.k = "inf" THEN a
  ELSE IF b.k = "inf" THEN b
  ELSE Fin(a.n * b.d + b.n * a.d, a.d * b.d)

\* a - b
JsSub(a, b) == JsAdd(a, JsMul(Fin(-1, 1), b))

\* a === b (false when either side is NaN)
JsEq(a, b) ==
  /\ a.k # "nan"
  /\ b.k # "nan"
  /\ a.k = b.k
  /\ IF a.k = "inf" THEN a.n = b.n ELSE a.n * b.d = b.n * a.d

\* a < b (false when either side is NaN)
JsLt(a, b) ==
  /\ a.k # "nan"
  /\ b.k # "nan"
  /\ IF a.k = "inf" THEN a.n < 0 /\ ~(b.k = "inf" /\ b.n < 0)
     ELSE IF b.k = "inf" THEN b.n > 0
     ELSE a.n * b.d < b.n * a.d

\* a <= b
JsLe(a, b) == JsLt(a, b) \/ JsEq(a, b)

---------------------------------------------------------------------------
(* Scene: the layout of the photo sets (Gallery.tsx 39-53).                *)

gapBetweenGroups == 2

\* One step of the reducer: the group of the set at 0-based index, given
\* the groups accumulated so far.
GroupOf(acc, set, index) ==
  LET len == Len(set) - 1
      start == IF index = 0 THEN 0
               ELSE acc[index].start + len + gapBetweenGroups
      end == start + len
  IN [start |-> start, len |-> len, end |-> end]

\* photoSets.reduce(..., []) restricted to the first k sets.
RECURSIVE GroupsUpTo(_, _)
GroupsUpTo(sets, k) ==
  IF k = 0 THEN <<>>
  ELSE LET acc == GroupsUpTo(sets, k - 1)
       IN Append(acc, GroupOf(acc, sets[k], k - 1))

groups(sets) == GroupsUpTo(sets, Len(sets))

\* groups[groups.length - 1].end reads .end of undefined when groups is
\* empty: a TypeError.
TotalThrows(sets) == Len(groups(sets)) = 0

total(sets) == groups(sets)[Len(sets)].end

\* (Math.PI * 2 * point) / total, in turns.
pointToRadian(sets, point) == JsDiv(Fin(point, 1), Fin(total(sets), 1))

startOfGroup(sets, index) == pointToRadian(sets, groups(sets)[index + 1].start)

lenOfGroup(sets, index) == pointToRadian(sets, groups(sets)[index + 1].len)

---------------------------------------------------------------------------
(* Cards and Card (Gallery.tsx 89-115).                                    *)

\* from + (amount / 2 / amount) * len
textPosition(amount, from, len) ==
  JsAdd(from, JsMul(JsDiv(JsDiv(Fin(amount, 1), Fin(2, 1)), Fin(amount, 1)), len))

\* from + (i / amount) * len
CardAngle(amount, from, len, i) ==
  JsAdd(from, JsMul(JsDiv(Fin(i, 1), Fin(amount, 1)), len))

\* The photo Card i of a set is given.
CardPhoto(photos, i) == photos[i + 1]

\* The props of the Card element created for index i.
Card(photos, from, len, hov, i) ==
  [angle |-> CardAngle(Len(photos), from, len, i),
   active |-> hov # NullIdx,
   hovered |-> hov = i,
   photo |-> CardPhoto(photos, i)]

\* The elements one Cards component returns: the label position and
\* Array.from({ length: amount }, ...), entry i + 1 being Card i.
Cards(photos, from, len, hov) ==
  [from |-> from,
   len |-> len,
   amount |-> Len(photos),
   textPosition |-> textPosition(Len(photos), from, len),
   cards |-> [j \in 1..Len(photos) |-> Card(photos, from, len, hov, j - 1)]]

\* ActiveCard: the caption shown, or nothing rendered.
ActiveCard(photo) ==
  IF Truthy(photo) THEN [shown |-> TRUE, caption |-> Title(photo), photo |-> photo]
  ELSE [shown |-> FALSE, caption |-> Title(Undefined), photo |-> Undefined]

NoActiveCard == [shown |-> FALSE, caption |-> Title(Undefined), photo |-> Undefined]

\* The result of one call of Scene with the given props and state.
Scene(sets, hp, hov) ==
  IF TotalThrows(sets)
  THEN [status |-> "threw", groups |-> <<>>, total |-> 0, cards |-> <<>>,
        active |-> NoActiveCard]
  ELSE [status |-> "rendered",
        groups |-> groups(sets),
        total |-> total(sets),
        cards |-> [s \in 1..Len(sets) |->
                     Cards(sets[s], startOfGroup(sets, s - 1),
                           lenOfGroup(sets, s - 1), hov[s])],
        active |-> IF Truthy(hp) THEN ActiveCard(hp) ELSE NoActiveCard]

NotRendered == [status |-> "none", groups |-> <<>>, total |-> 0, cards |-> <<>>,
                active |-> NoActiveCard]

---------------------------------------------------------------------------
(* Inputs.                                                                 *)

\* The photo set at position s holding n photos.
SetOfSize(s, n) == [i \in 1..n |-> Photo(s, i - 1)]

\* All lists of at most maxSets photo sets of at most maxPhotos photos.
RECURSIVE SizeLists(_, _)
SizeLists(maxSets, maxPhotos) ==
  IF maxSets = 0 THEN {<<>>}
  ELSE LET shorter == SizeLists(maxSets - 1, maxPhotos)
       IN shorter \cup
          {Append(l, n) : l \in {x \in shorter : Len(x) = maxSets - 1},
                          n \in 0..maxPhotos}

PhotoSetsOf(sizes) == [s \in 1..Len(sizes) |-> SetOfSize(s, sizes[s])]

---------------------------------------------------------------------------
(* Pointer events on the cards (Gallery.tsx 65, 106-107).  The event       *)
(* system delivers a pointer-over to a card it does not hold as hovered    *)
(* and a pointer-out to a card it does; the order between the pointer-out  *)
(* of one card and the pointer-over of another is left open.  React        *)
(* re-renders Scene after the handlers' state updates.                     *)

\* hover(i) of Cards s.
hoverIndex(hov, s, i) == [hov EXCEPT ![s] = i]

\* hover(null) of Cards s, as a plausible slip would leave it: not called.
hoverNullSkipped(hov, s) == hov

\* hover(null) of Cards s.
hoverNull(hov, s) == [hov EXCEPT ![s] = NullIdx]

\* onHoverCard capturing the first photo set instead of its own.
onHoverCardFirstSet(sets, s, index) == PhotoAt(sets[1], index)

\* onHoverCard of set s: the value handed to setHoveredPhoto,
\* photoSet.photos[index].
onHoverCard(sets, s, index) == PhotoAt(sets[s], index)

\* onPointerOver of Card i of set s:
\* (e.stopPropagation(), hover(i), onHoverCard(i)).
PointerOver(s, i) ==
  /\ scene.status = "rendered"
  /\ <<s, i>> \notin pointerOver
  /\ Cardinality(pointerOver) < MaxPointers
  /\ hovered' = hoverIndex(hovered, s, i)
  /\ hoveredPhoto' = onHoverCard(photoSets, s, i)
  /\ pointerOver' = pointerOver \cup {<<s, i>>}
  /\ inOrder' = (inOrder /\ pointerOver = {})
  /\ scene' = Scene(photoSets, hoveredPhoto', hovered')
  /\ UNCHANGED <<photoSets, frameVars, pageVars>>

\* onPointerOut of Card i of set s: (hover(null), onHoverCard(null)).
PointerOut(s, i) ==
  /\ scene.status = "rendered"
  /\ <<s, i>> \in pointerOver
  /\ hovered' = hoverNull(hovered, s)
  /\ hoveredPhoto' = onHoverCard(photoSets, s, NullIdx)
  /\ pointerOver' = pointerOver \ {<<s, i>>}
  /\ scene' = Scene(photoSets, hoveredPhoto', hovered')
  /\ UNCHANGED <<photoSets, inOrder, frameVars, pageVars>>

\* The cards of the scene: <<s, i>> is Card i of set s.
CardIds ==
  UNION {{<<s, i>> : i \in 0..(Len(photoSets[s]) - 1)} : s \in 1..Len(photoSets)}

---------------------------------------------------------------------------
(* Page (part_000 26-38): an async function that awaits getAllPhotos and   *)
(* returns the header and the PhotoGallery element.  getAllPhotos is the   *)
(* client of the photo-hosting API: it is pending while the photo sets     *)
(* arrive and then resolves with all of them, or it rejects.               *)

NoElement == [header |-> FALSE, gallery |-> FALSE, photos |-> <<>>]

PageIdle == [pc |-> "idle", renders |-> 0, fetches |-> 0, calls |-> 0, out |-> NoElement]

NoFetch == [state |-> "none", remote |-> <<>>, received |-> 0]

\* What the promise of getAllPhotos holds.
FetchValue(f) == SubSeq(f.remote, 1, f.received)

\* Page without the await: it goes on as soon as the call was made.
AwaitedNot(f) == f.state # "none"

\* await: Page goes on once the promise is settled.
Awaited(f) == f.state \in {"resolved", "rejected"}

\* The rest of Page, had it caught the rejection and returned an empty
\* gallery.
AfterAwaitCatching(pg, f) ==
  [pg EXCEPT !.pc = "returned",
             !.out = [header |-> TRUE, gallery |-> TRUE,
                      photos |-> IF f.state = "rejected" THEN <<>> ELSE FetchValue(f)]]

\* The rest of Page: a rejected await throws out of Page, which has no
\* try / catch; otherwise photos is the awaited value and the elements are
\* returned.
AfterAwait(pg, f) ==
  IF f.state = "rejected"
  THEN [pg EXCEPT !.pc = "rejected"]
  ELSE [pg EXCEPT !.pc = "returned",
                  !.out = [header |-> TRUE, gallery |-> TRUE, photos |-> FetchValue(f)]]

\* A page render begins: Page runs up to its await, calling getAllPhotos.
PageCall ==
  /\ page.pc \in {"idle", "returned", "rejected"}
  /\ page.renders < MaxRenders
  /\ page' = [pc |-> "awaiting", renders |-> page.renders + 1,
              fetches |-> page.fetches + 1, calls |-> 1, out |-> NoElement]
  /\ fetch' = [fetch EXCEPT !.state = "pending", !.received = 0]
  /\ UNCHANGED <<sceneVars, frameVars>>

\* One more photo set arrives.
FetchProgress ==
  /\ fetch.state = "pending"
  /\ fetch.received < Len(fetch.remote)
  /\ fetch' = [fetch EXCEPT !.received = @ + 1]
  /\ UNCHANGED <<sceneVars, frameVars, page>>

\* getAllPhotos resolves with the whole list.
FetchResolve ==
  /\ fetch.state = "pending"
  /\ fetch.received = Len(fetch.remote)
  /\ fetch' = [fetch EXCEPT !.state = "resolved"]
  /\ UNCHANGED <<sceneVars, frameVars, page>>

\* getAllPhotos rejects.
FetchReject ==
  /\ fetch.state = "pending"
  /\ fetch' = [fetch EXCEPT !.state = "rejected"]
  /\ UNCHANGED <<sceneVars, frameVars, page>>

\* Page resumes after its await.
PageContinue ==
  /\ page.pc = "awaiting"
  /\ Awaited(fetch)
  /\ page' = AfterAwait(page, fetch)
  /\ UNCHANGED <<sceneVars, frameVars, fetch>>

---------------------------------------------------------------------------
(* The per-frame callbacks (Gallery.tsx 32-37, 134-138, 167-173).          *)
(* Lengths, scales, zoom and opacity are in units of 1/10000, rotation in  *)
(* 1/10000 turn, times in display frames of 1/60 s.                        *)

Unit == 10000

\* a / b rounded toward zero, for b > 0.
TruncDiv(a, b) == Sgn(a) * (Abs(a) \div b)

\* easing.damp: the value moves toward its target, the faster the longer
\* the frame and the shorter the smooth time, and never past it.
Damp(cur, target, smoothTime, delta) ==
  target - TruncDiv((target - cur) * smoothTime, smoothTime + delta)

\* easing.damp3: damp on each of the three components.
Damp3(cur, target, smoothTime, delta) ==
  <<Damp(cur[1], target[1], smoothTime, delta),
    Damp(cur[2], target[2], smoothTime, delta),
    Damp(cur[3], target[3], smoothTime, delta)>>

\* The smooth times 0.3, 0.1, 0.15, 0.5 and 0.3 s of the five damp calls.
CameraSmooth == 18

PositionSmooth == 6

ScaleSmooth == 9

ZoomSmooth == 30

OpacitySmooth == 18

\* ratio = 1.618
Ratio == 16180

\* The factor f = hovered ? 1.4 : active ? 1.25 : 1 of a Card.
ScaleFactor(card) == IF card.hovered THEN 14000 ELSE IF card.active THEN 12500 ELSE Unit

\* The lift of a Card: hovered ? 0.25 : 0.
Lift(card) == IF card.hovered THEN 2500 ELSE 0

\* The Card element of card c = <<s, i>> in the rendered scene.
CardProps(c) == scene.cards[c[1]].cards[c[2] + 1]

\* Scene's callback: the root group's rotation, the camera's position and
\* its orientation (lookAt from the new position).  state.events.update()
\* raycasts; the pointer events it finds are the actions PointerOver and
\* PointerOut.
SceneFrame(g, in) ==
  LET pos == Damp3(g.cameraPos, <<-in.pointerX * 2 * Unit, 10 * Unit, 11 * Unit>>,
                   CameraSmooth, in.delta)
  IN [g EXCEPT !.rotationY = -in.offset,
               !.cameraPos = pos,
               !.cameraLookFrom = pos]

\* The image a Card's callback writes, were the ref shared by all Cards of
\* the scene instead of being created per Card.
SharedImage(c) == <<1, 0>>

\* The image a Card's callback writes: ref.current, its own image.
OwnImage(c) == c

\* Card's callback: position and scale of its image.
CardFrame(g, c, in) ==
  LET f == ScaleFactor(CardProps(c))
      img == OwnImage(c)
  IN [g EXCEPT
        !.imgPos[img] = Damp3(@, <<0, Lift(CardProps(c)), 0>>, PositionSmooth, in.delta),
        !.imgScale[img] = Damp3(@, <<(Ratio * f) \div Unit, f, Unit>>, ScaleSmooth, in.delta)]

\* ActiveCard's callback: zoom and opacity of its image's material; nothing
\* while the image is not there (ref.current unset).  ActiveCard is mounted
\* only with a photo, so the opacity target photo ? 1 : 0 is 1.
ActiveCardFrame(g, in) ==
  IF ~in.loaded THEN g
  ELSE [g EXCEPT !.zoom = Damp(@, Unit, ZoomSmooth, in.delta),
                 !.opacity = Damp(@, IF scene.active.shown THEN Unit ELSE 0,
                                  OpacitySmooth, in.delta)]

\* The callbacks subscribed with useFrame: <<kind, s, i>>.
SceneCb == <<"scene", 0, 0>>

ActiveCb == <<"active", 0, 0>>

CardCb(c) == <<"card", c[1], c[2]>>

Callbacks ==
  {SceneCb} \cup {CardCb(c) : c \in CardIds}
            \cup (IF scene.active.shown THEN {ActiveCb} ELSE {})

\* What callback cb does to the transforms.
RunCallback(g, cb, in) ==
  IF cb = SceneCb THEN SceneFrame(g, in)
  ELSE IF cb = ActiveCb THEN ActiveCardFrame(g, in)
  ELSE CardFrame(g, <<cb[2], cb[3]>>, in)

\* The transforms after mount: the default camera of the canvas, the image
\* scale [ratio, 1] of Card, and the zoom 0.95 ActiveCard's layout effect
\* sets.
InitialGfx ==
  [rotationY |-> 0,
   cameraPos |-> <<0, 0, 5 * Unit>>,
   cameraLookFrom |-> <<0, 0, 5 * Unit>>,
   imgPos |-> [c \in CardIds |-> <<0, 0, 0>>],
   imgScale |-> [c \in CardIds |-> <<Ratio, Unit, Unit>>],
   zoom |-> 9500,
   opacity |-> Unit]

\* The inputs of one frame: its duration, scroll.offset, state.pointer.x
\* and whether ActiveCard's image is there.
FrameInputs ==
  [delta : {1, 2}, offset : {0, 2500}, pointerX : {-1, 1},
   loaded : IF scene.active.shown THEN BOOLEAN ELSE {FALSE}]

NoInput == [delta |-> 0, offset |-> 0, pointerX |-> 0, loaded |-> FALSE]

\* The render loop starts a frame: every subscribed callback is to run.
BeginFrame(in) ==
  /\ scene.status = "rendered"
  /\ frame.pending = {}
  /\ frame.n < MaxFrames
  /\ frame' = [n |-> frame.n + 1, in |-> in, pending |-> Callbacks, start |-> gfx]
  /\ UNCHANGED <<sceneVars, gfx, pageVars>>

\* The loop runs one of the callbacks left, in no particular order.
RunFrameCallback(cb) ==
  /\ cb \in frame.pending
  /\ gfx' = RunCallback(gfx, cb, frame.in)
  /\ frame' = [frame EXCEPT !.pending = @ \ {cb}]
  /\ UNCHANGED <<sceneVars, pageVars>>

\* A mounted scene of one photo set, no card or one card hovered.
InitFrame ==
  /\ \E n \in 1..FramePhotos :
       /\ photoSets = PhotoSetsOf(<<n>>)
       /\ \E h \in {NullIdx} \cup 0..(n - 1) :
            /\ hovered = <<h>>
            /\ hoveredPhoto = (IF h = NullIdx THEN Null ELSE Photo(1, h))
            /\ pointerOver = (IF h = NullIdx THEN {} ELSE {<<1, h>>})
  /\ inOrder = TRUE
  /\ scene = Scene(photoSets, hoveredPhoto, hovered)
  /\ gfx = InitialGfx
  /\ frame = [n |-> 0, in |-> NoInput, pending |-> {}, start |-> gfx]
  /\ page = PageIdle
  /\ fetch = NoFetch

NextFrame ==
  \/ \E in \in FrameInputs : BeginFrame(in)
  \/ \E cb \in Callbacks : RunFrameCallback(cb)

SpecFrame == InitFrame /\ [][NextFrame]_vars

---------------------------------------------------------------------------
(* The gallery is mounted: React calls Scene for the first time.           *)

InitScene(lists) ==
  /\ photoSets \in {PhotoSetsOf(l) : l \in lists}
  /\ scene = NotRendered
  /\ hoveredPhoto = Null
  /\ hovered = [s \in 1..Len(photoSets) |-> NullIdx]
  /\ pointerOver = {}
  /\ inOrder = TRUE
  /\ gfx = InitialGfx
  /\ frame = [n |-> 0, in |-> NoInput, pending |-> {}, start |-> gfx]

\* Page is not invoked.
NoPage == page = PageIdle /\ fetch = NoFetch

\* Scene returns its elements.
Mount ==
  /\ scene.status = "none"
  /\ ~TotalThrows(photoSets)
  /\ scene' = Scene(photoSets, hoveredPhoto, hovered)
  /\ UNCHANGED <<photoSets, hoveredPhoto, hovered, pointerOver, inOrder, frameVars, pageVars>>

\* Scene throws while computing total.
MountThrows ==
  /\ scene.status = "none"
  /\ TotalThrows(photoSets)
  /\ scene' = Scene(photoSets, hoveredPhoto, hovered)
  /\ UNCHANGED <<photoSets, hoveredPhoto, hovered, pointerOver, inOrder, frameVars, pageVars>>

Init == InitScene(SizeLists(MaxSets, MaxPhotos)) /\ NoPage

Next == Mount \/ MountThrows

Spec == Init /\ [][Next]_vars

---------------------------------------------------------------------------
(* The specification of the pointer events.                                *)

InitHover == InitScene(SizeLists(HoverSets, HoverPhotos)) /\ NoPage

NextHover ==
  \/ Mount
  \/ MountThrows
  \/ \E c \in CardIds : PointerOver(c[1], c[2])
  \/ \E c \in CardIds : PointerOut(c[1], c[2])

SpecHover == InitHover /\ [][NextHover]_vars

---------------------------------------------------------------------------
(* The specification of Page: the API holds some list of photo sets.       *)

InitPage ==
  /\ InitScene({<<>>})
  /\ page = PageIdle
  /\ fetch \in {[state |-> "none", remote |-> PhotoSetsOf(l), received |-> 0] :
                  l \in SizeLists(MaxSets, MaxPhotos)}

NextPage == PageCall \/ FetchProgress \/ FetchResolve \/ FetchReject \/ PageContinue

SpecPage == InitPage /\ [][NextPage]_vars

---------------------------------------------------------------------------
(* Properties of the layout, stated over the result of Scene.              *)

Rendered == scene.status = "rendered"

\* The angles of the Card elements of set s, in creation order.
AnglesOf(s) == [j \in 1..Len(scene.cards[s].cards) |-> scene.cards[s].cards[j].angle]

\* Two spans [start, end] of points share a point.
Overlap(g, h) ==
  /\ g.start <= g.end
  /\ h.start <= h.end
  /\ (IF g.start > h.start THEN g.start ELSE h.start)
       <= (IF g.end < h.end THEN g.end ELSE h.end)

\* C1: every group after the first starts exactly gapBetweenGroups points
\* after the end of the group before it, and no two distinct groups' spans
\* [start, end] overlap.
C1_RunningOffset ==
  Rendered =>
    /\ \A i \in 2..Len(scene.groups) :
         scene.groups[i].start = scene.groups[i - 1].end + gapBetweenGroups
    /\ \A i, j \in 1..Len(scene.groups) :
         i # j => ~Overlap(scene.groups[i], scene.groups[j])

\* C2: for every list of photo sets (the empty list and sets of zero or one
\* photo included) Scene computes groups, total, startOfGroup and lenOfGroup
\* without throwing.
C2_NoThrow == scene.status # "threw"

\* C3: for every photo set with at least two photos there is exactly one
\* Card per photo, Card i shows photos[i], and the Card angles are strictly
\* increasing in i.
C3_RenderedInOrder ==
  Rendered =>
    \A s \in 1..Len(photoSets) :
      Len(photoSets[s]) >= 2 =>
        /\ Len(scene.cards[s].cards) = Len(photoSets[s])
        /\ \A j \in 1..Len(photoSets[s]) :
             scene.cards[s].cards[j].photo = photoSets[s][j]
        /\ \A j \in 1..(Len(photoSets[s]) - 1) :
             JsLt(AnglesOf(s)[j], AnglesOf(s)[j + 1])

\* C8: within one set, consecutive cards differ in angle by exactly
\* len / amount, the first card sits at from, every card's angle lies in
\* [from, from + len), and the label sits at from + len / 2.
C8_EvenlyPlaced ==
  Rendered =>
    \A s \in 1..Len(photoSets) :
      LET c == scene.cards[s]
          a == AnglesOf(s)
      IN /\ \A j \in 1..(c.amount - 1) :
              JsEq(JsSub(a[j + 1], a[j]), JsDiv(c.len, Fin(c.amount, 1)))
         /\ c.amount >= 1 => JsEq(a[1], c.from)
         /\ \A j \in 1..c.amount :
              JsLe(c.from, a[j]) /\ JsLt(a[j], JsAdd(c.from, c.len))
         /\ JsEq(c.textPosition, JsAdd(c.from, JsDiv(c.len, Fin(2, 1))))

\* A number of turns that is finite and within one revolution.
InRevolution(x) == IsFinite(x) /\ JsLe(Fin(0, 1), x) /\ JsLe(x, Fin(1, 1))

\* C10: for every non-empty list of sets of at least one photo each, total
\* is positive, every card angle and every group's start and end angle is a
\* finite number within one revolution, and no group's end exceeds total.
C10_FitsOneRevolution ==
  (Rendered /\ Len(photoSets) >= 1 /\ \A s \in 1..Len(photoSets) : Len(photoSets[s]) >= 1) =>
    /\ scene.total > 0
    /\ \A s \in 1..Len(photoSets) :
         /\ \A j \in 1..Len(scene.cards[s].cards) : InRevolution(AnglesOf(s)[j])
         /\ InRevolution(pointToRadian(photoSets, scene.groups[s].start))
         /\ InRevolution(pointToRadian(photoSets, scene.groups[s].end))
         /\ scene.groups[s].end <= scene.total

---------------------------------------------------------------------------
(* Properties of the hover state.                                          *)

\* The cards whose Card element has hovered = true.
HoveredCards ==
  {c \in CardIds : scene.cards[c[1]].cards[c[2] + 1].hovered}

\* C4: a pointer-over on card i of set s leaves hoveredPhoto = s.photos[i]
\* and ActiveCard rendered with that photo's title as caption; a pointer-out
\* on the card leaves hoveredPhoto falsy and no ActiveCard rendered.
C4_HoverUpdatesCaption ==
  [][\A c \in CardIds :
       /\ PointerOver(c[1], c[2]) =>
            /\ hoveredPhoto' = photoSets[c[1]][c[2] + 1]
            /\ scene'.active.shown
            /\ scene'.active.caption = Title(photoSets[c[1]][c[2] + 1])
       /\ PointerOut(c[1], c[2]) =>
            /\ ~Truthy(hoveredPhoto')
            /\ ~scene'.active.shown]_vars

\* A pointer-over followed by the pointer-out has happened: hoveredPhoto is
\* undefined (it starts as null) and no caption is shown.
C4_Witness ==
  /\ Rendered
  /\ Len(photoSets) = 2
  /\ hoveredPhoto = Undefined
  /\ ~scene.active.shown
  /\ pointerOver = {}

\* At most one card is hovered, and a card that alone is under the pointer
\* is the hovered one and its photo is hoveredPhoto.
HoverConsistent ==
  /\ Cardinality(HoveredCards) <= 1
  /\ \A c \in CardIds :
       pointerOver = {c} =>
         /\ HoveredCards = {c}
         /\ hoveredPhoto = photoSets[c[1]][c[2] + 1]

\* C9 as claimed: after any sequence of pointer-over and pointer-out
\* events, in any delivery order, the hover state is consistent.
C9_ConsistentAnyOrder == Rendered => HoverConsistent

\* C9 amended: the hover state is consistent as long as every pointer-over
\* was delivered after the pointer-out of the card hovered before it.
C9_ConsistentInOrder == (Rendered /\ inOrder) => HoverConsistent

\* The second card of the second set is hovered after in-order events, and
\* the first set holds no hovered card.
C9_Witness ==
  /\ Rendered
  /\ inOrder
  /\ pointerOver = {<<2, 1>>}
  /\ HoveredCards = {<<2, 1>>}
  /\ hoveredPhoto = Photo(2, 1)

---------------------------------------------------------------------------
(* Properties of the per-frame callbacks.                                  *)

\* The part of the transforms a callback writes.
Owned(g, cb) ==
  IF cb = SceneCb THEN <<g.rotationY, g.cameraPos, g.cameraLookFrom>>
  ELSE IF cb = ActiveCb THEN <<g.zoom, g.opacity>>
  ELSE <<g.imgPos[<<cb[2], cb[3]>>], g.imgScale[<<cb[2], cb[3]>>]>>

\* The transforms after the callbacks of S ran in one fixed order.
RECURSIVE RunAll(_, _, _)
RunAll(g, S, in) ==
  IF S = {} THEN g
  ELSE LET cb == CHOOSE x \in S : TRUE
       IN RunAll(RunCallback(g, cb, in), S \ {cb}, in)

---------------------------------------------------------------------------
(* Properties of Page.                                                     *)

\* C5: each page render issues exactly one getAllPhotos call, and the
\* PhotoGallery element exists only once that call has resolved, with the
\* complete fetched list as its photos prop.
C5_GalleryAfterFetch ==
  /\ page.fetches = page.renders
  /\ page.pc # "idle" => page.calls = 1
  /\ page.out.gallery =>
       /\ page.pc = "returned"
       /\ fetch.state = "resolved"
       /\ page.out.photos = fetch.remote

\* The second page render has returned a gallery of two photo sets.
C5_Witness ==
  /\ page.pc = "returned"
  /\ page.renders = 2
  /\ page.out.gallery
  /\ Len(page.out.photos) = 2

\* C6: when getAllPhotos rejects, Page rejects with it: once Page has
\* resumed it is rejected, getAllPhotos was called once in this render, and
\* neither the header nor the PhotoGallery element is returned.
C6_FailedFetchFailsPage ==
  (fetch.state = "rejected" /\ page.pc # "awaiting") =>
    /\ page.pc = "rejected"
    /\ page.calls = 1
    /\ page.fetches = page.renders
    /\ ~page.out.header
    /\ ~page.out.gallery

\* Page has resumed from a rejected fetch of a non-empty list.
C6_Witness ==
  /\ fetch.state = "rejected"
  /\ page.pc = "rejected"
  /\ Len(fetch.remote) > 0

=============================================================================
